---- MODULE Spec2Model ----
(***************************************************************************)
(* Model of op-supervisor's ManagedNode                                    *)
(* (op-supervisor/supervisor/backend/syncnode/node.go): the node-event     *)
(* dispatcher, the reset / conflict resolver with its bounded walk-back,   *)
(* and the life cycle of the dispatch goroutine.                           *)
(*                                                                         *)
(* Numbers of type uint64 are represented by their residue modulo 2^64 in  *)
(* the interval (-2^63, 2^63): n < 2^63 is represented by n, and           *)
(* n >= 2^63 by n - 2^64 (so 2^64 - 1 is -1).  Decrementing is then "- 1"  *)
(* (0 - 1 wraps to 2^64 - 1) and the unsigned order is ULeq below.         *)
(***************************************************************************)
EXTENDS Integers, Sequences, FiniteSets

VARIABLES
    emitter,     \* m.emitter: "nil" after construction, "attached" after AttachEmitter
    phase,       \* "ready": no call made yet; "returned": call has returned; "panicked"
    call,        \* the call made: operation, its arguments, the behaviour of oracle and node
    trace,       \* the calls it issued, in order: oracle reads, Sync Target calls, emits, handlers
    ret,         \* what it returned
    noSubscribe, \* the noSubscribe argument of NewManagedNode
    ctxDone,     \* m.ctx has been cancelled
    nodeEvents,  \* the events buffered in the channel m.nodeEvents
    subscription,\* m.subscriptions: "none", or the state of the one subscription
    delivered,   \* how many events the subscription has put into m.nodeEvents
    loop,        \* the dispatch goroutine of Start
    loopEv,      \* the event it has received
    running,     \* how many onNodeEvent calls of the dispatch goroutine are in progress
    watcher,     \* the watchSub goroutine of WatchSubscriptionErrors
    wg,          \* m.wg
    closing,     \* the call of Close
    bus,         \* the caller of OnEvent
    busEv,       \* the event it has passed to OnEvent
    puller,      \* the caller of PullEvents
    sent,        \* the events the subscription has put into m.nodeEvents, in order
    handled,     \* the events the dispatch goroutine has passed to onNodeEvent, in order
    lastSubscribe \* how the latest m.Node.SubscribeEvents ended ("pending" until it has)

hvars == <<emitter, phase, call, trace, ret>>
evars == <<noSubscribe, ctxDone, nodeEvents, subscription, delivered, loop, loopEv,
           running, watcher, wg, closing, bus, busEv, puller, sent, handled,
           lastSubscribe>>
vars == <<hvars, evars>>

-----------------------------------------------------------------------------
(* Program constants, node.go:34-40 *)

maxWalkBackAttempts == 300
blockNotFoundRPCErrCode == -39001
conflictingBlockRPCErrCode == -39002
\* some other JSON-RPC error code (not one of the two above)
otherRPCErrCode == 0 - 32000

-----------------------------------------------------------------------------
(* uint64 arithmetic on residues *)

\* a <= b on uint64
ULeq(a, b) == IF (a >= 0) = (b >= 0) THEN a <= b ELSE a >= 0

\* currentBlock-- on uint64
UDecMut(a) == a - 2
UDec(a) == a - 1

-----------------------------------------------------------------------------
(* Values *)

\* eth.BlockID: (hash, number).  The zero value has the zero hash and number 0.
BlockID(n, h) == [number |-> n, hash |-> h]
ZeroID == BlockID(0, "zero")
\* eth.BlockID{Number: n}
NumberID(n) == BlockID(n, "zero")

\* Go errors.  An error is nil (ok), a *gethrpc.JsonError with a code (rpc), or
\* any other error (context cancelled, timeout, transport failure, ...).
\* "is" names the sentinel error it wraps (errors.Is), if any.
NoErr == [ok |-> TRUE, rpc |-> FALSE, code |-> 0, is |-> "none"]
PlainErr == [ok |-> FALSE, rpc |-> FALSE, code |-> 0, is |-> "none"]
RpcErr(c) == [ok |-> FALSE, rpc |-> TRUE, code |-> c, is |-> "none"]
SentinelErr(which) == [ok |-> FALSE, rpc |-> FALSE, code |-> 0, is |-> which]
\* errors.Is(err, sentinel); false of a nil error
ErrorsIs(err, which) == ~err.ok /\ err.is = which

\* One entry of the trace of a call: the operation, its arguments, and the context
\* it was issued under: "caller" (the context the caller passed in),
\* "internalTimeout" (context.WithTimeout(m.ctx, internalTimeout)),
\* "nodeTimeout" (context.WithTimeout(m.ctx, nodeTimeout)), "none" (takes none).
Did(op, args, ctx) == [op |-> op, args |-> args, ctx |-> ctx]

-----------------------------------------------------------------------------
(* The Safety Oracle (backend) and the Sync Target (m.Node) as resolveConflict *)
(* sees them.  Their behaviour is given by the record b:                       *)
(*   b.l1Ok       SafeDerivedAt(l1Ref.ID()) succeeds                           *)
(*   b.S          the number of the block it returns                           *)
(*   b.oracleFail the numbers n for which SafeDerivedAt({Number: n}) fails     *)
(*   b.oracleOff  SafeDerivedAt({Number: n}) returns the block numbered        *)
(*                n - oracleOff (the block numbered n when oracleOff = 0)      *)
(*   b.accept     the safe numbers for which Reset succeeds                    *)
(*   b.fault      the safe numbers for which Reset fails with b.faultErr       *)
(*   b.walkCode   the code every other Reset fails with                        *)

\* m.backend.SafeDerivedAt(ctx, m.chainID, derivedFrom)
SafeDerivedAt(b, derivedFrom) ==
    IF derivedFrom = b.l1ID
    THEN IF b.l1Ok THEN [err |-> NoErr, val |-> BlockID(b.S, "canon")]
                   ELSE [err |-> PlainErr, val |-> ZeroID]
    ELSE IF derivedFrom.number \in b.oracleFail
         THEN [err |-> PlainErr, val |-> ZeroID]
         ELSE [err |-> NoErr,
               val |-> BlockID(IF derivedFrom.number >= b.oracleOff
                                  THEN derivedFrom.number - b.oracleOff
                                  ELSE derivedFrom.number, "canon")]

\* m.Node.Reset(ctx, unsafe, safe, finalized)
NodeReset(b, unsafe, safe, finalized) ==
    IF safe.number \in b.accept THEN NoErr
    ELSE IF safe.number \in b.fault THEN b.faultErr
    ELSE RpcErr(b.walkCode)

-----------------------------------------------------------------------------
(* resolveConflict, node.go:383-437 *)

\* the walkable codes: errors.As(err, &rpcErr) && (code is one of the two)
IsWalkableMut(err) == ~err.ok /\ err.rpc
IsWalkable(err) ==
    /\ ~err.ok
    /\ err.rpc
    /\ (err.code = blockNotFoundRPCErrCode \/ err.code = conflictingBlockRPCErrCode)

\* tryReset, node.go:391-402
tryResetMut(ctx, b, u, safe, f) ==
    LET err == NodeReset(b, u, safe, f)
    IN  [resolved |-> err.ok,
         needsWalkback |-> IsWalkable(err),
         err |-> err,
         did |-> Did("Reset", <<u, safe, safe>>, ctx)]
tryReset(ctx, b, u, safe, f) ==
    LET err == NodeReset(b, u, safe, f)
    IN  [resolved |-> err.ok,
         needsWalkback |-> IsWalkable(err),
         err |-> err,
         did |-> Did("Reset", <<u, safe, f>>, ctx)]

\* the error values resolveConflict returns
RcNil == [kind |-> "nil", at |-> 0, cause |-> NoErr]
RcErr(kind, at, cause) == [kind |-> kind, at |-> at, cause |-> cause]

\* One iteration of the for loop, node.go:415-435, from the loop state st:
\* st.currentBlock, the calls made so far, and (once it has returned) the result.
WalkBody(ctx, b, u, f, st) ==
    LET currentBlock == UDec(st.currentBlock)
        q == SafeDerivedAt(b, NumberID(currentBlock))
        asked == st.calls \o <<Did("SafeDerivedAt", <<NumberID(currentBlock)>>, ctx)>>
        r == tryReset(ctx, b, u, q.val, f)
    IN  IF ULeq(currentBlock, f.number)
        THEN [st EXCEPT !.done = TRUE, !.currentBlock = currentBlock,
                        !.ret = RcErr("reachedFinalized", f.number, NoErr)]
        ELSE IF ~q.err.ok
        THEN [st EXCEPT !.done = TRUE, !.currentBlock = currentBlock, !.calls = asked,
                        !.ret = RcErr("safeAtBlock", currentBlock, q.err)]
        ELSE IF r.resolved
        THEN [st EXCEPT !.done = TRUE, !.currentBlock = currentBlock,
                        !.calls = asked \o <<r.did>>, !.ret = RcNil]
        ELSE IF ~IsWalkable(r.err)
        THEN [st EXCEPT !.done = TRUE, !.currentBlock = currentBlock,
                        !.calls = asked \o <<r.did>>,
                        !.ret = RcErr("duringResetAt", currentBlock, r.err)]
        ELSE [st EXCEPT !.currentBlock = currentBlock, !.calls = asked \o <<r.did>>]

\* Iterations i, i+1, ..., j-1 of the for loop, in order, stopping at the first
\* that returns.  (Split in halves to keep the evaluation shallow.)
RECURSIVE WalkLoop(_, _, _, _, _, _, _)
WalkLoop(ctx, b, u, f, i, j, st) ==
    IF st.done \/ j <= i THEN st
    ELSE IF j = i + 1 THEN WalkBody(ctx, b, u, f, st)
    ELSE LET mid == (i + j) \div 2
         IN  WalkLoop(ctx, b, u, f, mid, j, WalkLoop(ctx, b, u, f, i, mid, st))

\* for i := 0; i < maxWalkBackAttempts; i++ { ... }; return "exceeded ..."
WalkBackBoundMut(ctx, b, u, f, s, calls) ==
    LET st == WalkLoop(ctx, b, u, f, 0, maxWalkBackAttempts + 1,
                       [done |-> FALSE, currentBlock |-> s.number, calls |-> calls,
                        ret |-> RcNil])
    IN  IF st.done THEN [calls |-> st.calls, ret |-> st.ret]
        ELSE [calls |-> st.calls,
              ret |-> RcErr("exceededMax", maxWalkBackAttempts, NoErr)]
WalkBack(ctx, b, u, f, s, calls) ==
    LET st == WalkLoop(ctx, b, u, f, 0, maxWalkBackAttempts,
                       [done |-> FALSE, currentBlock |-> s.number, calls |-> calls,
                        ret |-> RcNil])
    IN  IF st.done THEN [calls |-> st.calls, ret |-> st.ret]
        ELSE [calls |-> st.calls,
              ret |-> RcErr("exceededMax", maxWalkBackAttempts, NoErr)]

resolveConflictMut(ctx, b, l1Ref, u, f) ==
    LET q == SafeDerivedAt(b, l1Ref)
        asked == <<Did("SafeDerivedAt", <<l1Ref>>, ctx)>>
        r == tryReset(ctx, b, u, q.val, f)
    IN  IF r.resolved
        THEN [calls |-> asked \o <<r.did>>, ret |-> RcNil]
        ELSE IF ~r.needsWalkback
        THEN [calls |-> asked \o <<r.did>>, ret |-> RcErr("duringReset", 0, r.err)]
        ELSE WalkBack(ctx, b, u, f, q.val, asked \o <<r.did>>)
resolveConflict(ctx, b, l1Ref, u, f) ==
    LET q == SafeDerivedAt(b, l1Ref)
        asked == <<Did("SafeDerivedAt", <<l1Ref>>, ctx)>>
        r == tryReset(ctx, b, u, q.val, f)
    IN  IF ~q.err.ok
        THEN [calls |-> asked, ret |-> RcErr("safeForL1Ref", l1Ref.number, q.err)]
        ELSE IF r.resolved
        THEN [calls |-> asked \o <<r.did>>, ret |-> RcNil]
        ELSE IF ~r.needsWalkback
        THEN [calls |-> asked \o <<r.did>>, ret |-> RcErr("duringReset", 0, r.err)]
        ELSE WalkBack(ctx, b, u, f, q.val, asked \o <<r.did>>)

-----------------------------------------------------------------------------
(* Block references and their conversions (op-service/eth, supervisor/types) *)

\* eth.BlockRef / eth.L1BlockRef
BlockRef(n, h) == [hash |-> h, number |-> n, parentHash |-> "parent", time |-> 11]
\* the zero value eth.L1BlockRef{}
ZeroRef == [hash |-> "zero", number |-> 0, parentHash |-> "zero", time |-> 0]
\* ref.ID()
RefID(ref) == BlockID(ref.number, ref.hash)
\* types.BlockSeal
BlockSeal(n, h) == [hash |-> h, number |-> n, timestamp |-> 11]
\* seal.ID()
SealID(seal) == BlockID(seal.number, seal.hash)
\* types.BlockSealFromRef(ref)
BlockSealFromRef(ref) == [hash |-> ref.hash, number |-> ref.number, timestamp |-> ref.time]
\* types.DerivedBlockRefPair, types.DerivedBlockSealPair, types.DerivedIDPair
Pair(derivedFrom, derived) == [derivedFrom |-> derivedFrom, derived |-> derived]
\* pair.IDs() of a DerivedBlockSealPair
PairIDs(pair) == Pair(SealID(pair.derivedFrom), SealID(pair.derived))
ZeroPair == Pair(ZeroID, ZeroID)

\* number + 1 on uint64
UInc(a) == a + 1

\* m.chainID, set at construction
chainID == "chainA"

-----------------------------------------------------------------------------
(* The Safety Oracle and the Sync Target as the handlers see them.  The record *)
(* e gives the outcome of each call: e.localUnsafe, e.localSafe, e.crossSafe   *)
(* ("ok", "fail"), e.finalized ("ok", "future", "fail"), e.l1 ("ok",           *)
(* "notFound", "fail"), e.nodeErr (the error of UpdateCrossUnsafe,             *)
(* UpdateCrossSafe, UpdateFinalized, InvalidateBlock and ProvideL1), e.b (the  *)
(* behaviour of SafeDerivedAt and of Reset, as above), e.pull and e.pullErr    *)
(* (the events PullEvent returns, and the error it then fails with).  A read   *)
(* that fails returns the zero value with its error.                           *)

UnsafeID == BlockID(1000, "canon")

\* m.backend.LocalUnsafe(ctx, m.chainID)
LocalUnsafe(e) ==
    IF e.localUnsafe = "ok" THEN [err |-> NoErr, val |-> UnsafeID]
    ELSE [err |-> PlainErr, val |-> ZeroID]

\* m.backend.Finalized(ctx, m.chainID)
Finalized(e) ==
    IF e.finalized = "ok" THEN [err |-> NoErr, val |-> BlockID(e.b.F, "canon")]
    ELSE IF e.finalized = "future" THEN [err |-> SentinelErr("ErrFuture"), val |-> ZeroID]
    ELSE [err |-> PlainErr, val |-> ZeroID]

\* m.backend.LocalSafe(ctx, m.chainID)
LocalSafe(e) ==
    IF e.localSafe = "ok"
    THEN [err |-> NoErr, val |-> Pair(BlockID(7, "l1"), BlockID(e.b.S, "local"))]
    ELSE [err |-> PlainErr, val |-> ZeroPair]

\* m.backend.CrossSafe(ctx, m.chainID)
CrossSafe(e) ==
    IF e.crossSafe = "ok"
    THEN [err |-> NoErr, val |-> Pair(BlockID(6, "l1"), BlockID(e.b.S, "cross"))]
    ELSE [err |-> PlainErr, val |-> ZeroPair]

\* m.backend.L1BlockRefByNumber(ctx, number)
L1BlockRefByNumber(e, number) ==
    IF e.l1 = "ok" THEN [err |-> NoErr, val |-> BlockRef(number, "l1")]
    ELSE IF e.l1 = "notFound" THEN [err |-> SentinelErr("NotFound"), val |-> ZeroRef]
    ELSE [err |-> PlainErr, val |-> ZeroRef]

-----------------------------------------------------------------------------
(* The handlers.  A handler gives the calls it issued, in order, and whether it *)
(* panicked; the first entry of its calls names the handler.                    *)

Ran(calls) == [calls |-> calls, panic |-> FALSE]
Panicked(calls) == [calls |-> calls, panic |-> TRUE]
Enter(handler) == Did(handler, <<>>, "none")
\* r, and then (unless r panicked) h
Then(r, h) == IF r.panic THEN r ELSE [calls |-> r.calls \o h.calls, panic |-> h.panic]

\* m.emitter.Emit(ev): a nil interface panics
Emit(em, ev) ==
    IF em = "nil" THEN Panicked(<<>>) ELSE Ran(<<Did("Emit", <<ev>>, "none")>>)

\* the case errors.Is(errSignal, types.ErrOutOfOrder), node.go:336-346
outOfOrderReset(e, ctx, u, f) ==
    LET s == LocalSafe(e)
    IN  IF ~s.err.ok THEN <<Did("LocalSafe", <<>>, ctx)>>
        ELSE <<Did("LocalSafe", <<>>, ctx), Did("Reset", <<u, s.val.derived, f>>, ctx)>>

\* the case errors.Is(errSignal, types.ErrFuture), node.go:326-335
futureResetMut(e, ctx, u, f) == outOfOrderReset(e, ctx, u, f)
futureReset(e, ctx, u, f) ==
    LET s == LocalSafe(e)
    IN  <<Did("LocalSafe", <<>>, ctx), Did("Reset", <<u, s.val.derived, f>>, ctx)>>

\* the switch of resetSignal, node.go:320-347
resetSwitch(e, ctx, errSignal, l1Ref, u, f) ==
    IF ErrorsIs(errSignal, "ErrConflict")
    THEN resolveConflict(ctx, e.b, RefID(l1Ref), u, f).calls
    ELSE IF ErrorsIs(errSignal, "ErrFuture") THEN futureReset(e, ctx, u, f)
    ELSE IF ErrorsIs(errSignal, "ErrOutOfOrder") THEN outOfOrderReset(e, ctx, u, f)
    ELSE <<>>

\* resetSignal, node.go:300-348
resetSignalMut(e, errSignal, l1Ref) ==
    LET ctx == "internalTimeout"
        u == LocalUnsafe(e)
        f == Finalized(e)
        readU == <<Enter("resetSignal"), Did("LocalUnsafe", <<>>, ctx)>>
        readF == readU \o <<Did("Finalized", <<>>, ctx)>>
    IN  IF ~u.err.ok THEN Ran(readU)
        ELSE IF ~f.err.ok /\ ~ErrorsIs(f.err, "ErrFuture") THEN Ran(readF)
        ELSE Ran(readF \o resetSwitch(e, ctx, errSignal, l1Ref, u.val, f.val))
resetSignal(e, errSignal, l1Ref) ==
    LET ctx == "internalTimeout"
        u == LocalUnsafe(e)
        f == Finalized(e)
        readU == <<Enter("resetSignal"), Did("LocalUnsafe", <<>>, ctx)>>
        readF == readU \o <<Did("Finalized", <<>>, ctx)>>
    IN  IF ~u.err.ok THEN Ran(readU)
        ELSE IF ~f.err.ok THEN Ran(readF)
        ELSE Ran(readF \o resetSwitch(e, ctx, errSignal, l1Ref, u.val, f.val))

\* sendReset, node.go:350-378
sendResetMut(e) ==
    LET ctx == "internalTimeout"
        u == LocalUnsafe(e)
        s == CrossSafe(e)
        f == Finalized(e)
        readU == <<Enter("sendReset"), Did("LocalUnsafe", <<>>, ctx)>>
        readS == readU \o <<Did("CrossSafe", <<>>, ctx)>>
        readF == readS \o <<Did("Finalized", <<>>, ctx)>>
    IN  IF ~u.err.ok THEN Ran(readU)
        ELSE IF ~s.err.ok THEN Ran(readS)
        ELSE IF ~f.err.ok THEN Ran(readF)
        ELSE Ran(readF \o <<Did("Reset", <<u.val, s.val.derived, f.val>>, ctx)>>)
sendReset(e) ==
    LET ctx == "internalTimeout"
        u == LocalUnsafe(e)
        s == CrossSafe(e)
        f == Finalized(e)
        readU == <<Enter("sendReset"), Did("LocalUnsafe", <<>>, ctx)>>
        readS == readU \o <<Did("CrossSafe", <<>>, ctx)>>
        readF == readS \o <<Did("Finalized", <<>>, ctx)>>
    IN  IF ~u.err.ok THEN Ran(readU)
        ELSE IF ~s.err.ok THEN Ran(readS)
        ELSE IF ~f.err.ok /\ ~ErrorsIs(f.err, "ErrFuture") THEN Ran(readF)
        ELSE Ran(readF \o <<Did("Reset",
                                <<u.val, s.val.derived,
                                  IF f.err.ok THEN f.val ELSE NumberID(0)>>, ctx)>>)

\* A message is the sequence of its pieces.
\* strings.Contains(errStr, "cannot continue derivation until Engine has been reset")
EngineResetPhrase == "cannot continue derivation until Engine has been reset"
NeedsEngineResetMut(errStr) == errStr = <<EngineResetPhrase>>
NeedsEngineReset(errStr) == \E i \in 1 .. Len(errStr) : errStr[i] = EngineResetPhrase

\* onResetEvent, node.go:226-235
onResetEvent(e, errStr) ==
    IF NeedsEngineReset(errStr) THEN Ran(<<Enter("onResetEvent")>>)
    ELSE Then(Ran(<<Enter("onResetEvent")>>),
              resetSignal(e, SentinelErr("ErrFuture"), ZeroRef))

\* onCrossUnsafeUpdate, node.go:237-247
onCrossUnsafeUpdate(e, seal) ==
    Ran(<<Enter("onCrossUnsafeUpdate"),
          Did("UpdateCrossUnsafe", <<SealID(seal)>>, "nodeTimeout")>>)

\* onCrossSafeUpdate, node.go:249-259
onCrossSafeUpdate(e, pair) ==
    Ran(<<Enter("onCrossSafeUpdate"),
          Did("UpdateCrossSafe", <<PairIDs(pair).derived, PairIDs(pair).derivedFrom>>,
              "nodeTimeout")>>)

\* onFinalizedL2, node.go:261-271
onFinalizedL2(e, seal) ==
    Ran(<<Enter("onFinalizedL2"),
          Did("UpdateFinalized", <<SealID(seal)>>, "nodeTimeout")>>)

\* onUnsafeBlock, node.go:273-279
onUnsafeBlock(em, unsafeRef) ==
    Then(Ran(<<Enter("onUnsafeBlock")>>),
         Emit(em, [type |-> "LocalUnsafeReceivedEvent", chain |-> chainID,
                   newLocalUnsafe |-> unsafeRef]))

\* onDerivationUpdate, node.go:281-298
onDerivationUpdate(em, pair) ==
    Then(Ran(<<Enter("onDerivationUpdate")>>),
         Emit(em, [type |-> "LocalDerivedEvent", chain |-> chainID, derivedPair |-> pair]))

\* onExhaustL1Event, node.go:439-463
onExhaustL1EventMut(e, completed) ==
    LET nextL1 == L1BlockRefByNumber(e, UInc(completed.derivedFrom.number))
        read == <<Enter("onExhaustL1Event"),
                  Did("L1BlockRefByNumber",
                      <<NumberID(UInc(completed.derivedFrom.number))>>, "internalTimeout")>>
    IN  IF ErrorsIs(nextL1.err, "NotFound") THEN Ran(read)
        ELSE Ran(read \o <<Did("ProvideL1", <<nextL1.val>>, "nodeTimeout")>>)
onExhaustL1Event(e, completed) ==
    LET nextL1 == L1BlockRefByNumber(e, UInc(completed.derivedFrom.number))
        read == <<Enter("onExhaustL1Event"),
                  Did("L1BlockRefByNumber",
                      <<NumberID(UInc(completed.derivedFrom.number))>>, "internalTimeout")>>
    IN  IF ~nextL1.err.ok THEN Ran(read)
        ELSE Ran(read \o <<Did("ProvideL1", <<nextL1.val>>, "nodeTimeout")>>)

\* onInvalidateLocalSafe, node.go:467-478
onInvalidateLocalSafe(e, invalidated) ==
    Ran(<<Enter("onInvalidateLocalSafe"),
          Did("InvalidateBlock", <<BlockSealFromRef(invalidated.derived)>>, "nodeTimeout")>>)

\* onReplaceBlock, node.go:480-487
onReplaceBlock(em, replacement) ==
    Then(Ran(<<Enter("onReplaceBlock")>>),
         Emit(em, [type |-> "ReplaceBlockEvent", chain |-> chainID,
                   replacement |-> replacement]))

\* A *types.ManagedEvent: nil, or five optional fields, each the empty set
\* (absent) or the set of its one value.
Only(field) == CHOOSE x \in field : TRUE

\* if ev.X != nil { m.onX(*ev.X) }
IfPresent(r, field, h) == IF field # {} THEN Then(r, h) ELSE r

\* the five field checks of onNodeEvent, node.go:209-223
dispatchFields(e, em, ev) ==
    LET r1 == IfPresent(Ran(<<>>), ev.Reset, onResetEvent(e, Only(ev.Reset)))
        r2 == IfPresent(r1, ev.UnsafeBlock, onUnsafeBlock(em, Only(ev.UnsafeBlock)))
        r3 == IfPresent(r2, ev.DerivationUpdate,
                        onDerivationUpdate(em, Only(ev.DerivationUpdate)))
        r4 == IfPresent(r3, ev.ExhaustL1, onExhaustL1Event(e, Only(ev.ExhaustL1)))
    IN  IfPresent(r4, ev.ReplaceBlock, onReplaceBlock(em, Only(ev.ReplaceBlock)))

\* onNodeEvent, node.go:204-224
onNodeEventMut(e, em, ev) ==
    IF ev.nil THEN Panicked(<<>>) ELSE dispatchFields(e, em, ev)
onNodeEvent(e, em, ev) ==
    IF ev.nil THEN Ran(<<>>) ELSE dispatchFields(e, em, ev)

\* PullEvents, node.go:189-202: the loop, with the events PullEvent still returns
RECURSIVE PullLoop(_, _, _, _, _)
PullLoop(e, em, pending, pulledAny, calls) ==
    IF pending = <<>>
    THEN [calls |-> calls \o <<Did("PullEvent", <<>>, "caller")>>, panic |-> FALSE,
          pulledAny |-> pulledAny,
          err |-> IF ErrorsIs(e.pullErr, "EOF") THEN NoErr ELSE e.pullErr]
    ELSE LET h == onNodeEvent(e, em, Head(pending))
             after == calls \o <<Did("PullEvent", <<>>, "caller")>> \o h.calls
         IN  IF h.panic
             THEN [calls |-> after, panic |-> TRUE, pulledAny |-> TRUE, err |-> NoErr]
             ELSE PullLoop(e, em, Tail(pending), TRUE, after)

PullEvents(e, em) == PullLoop(e, em, e.pull, FALSE, <<>>)

\* OnEvent, node.go:86-122: the calls, and the boolean it returns
Handled(r) == [calls |-> r.calls, panic |-> r.panic, handled |-> TRUE]
NotHandled == [calls |-> <<>>, panic |-> FALSE, handled |-> FALSE]
OnEventMut(e, ev) ==
    IF ev.type = "InvalidateLocalSafeEvent"
    THEN IF ev.chain # chainID THEN NotHandled
         ELSE Handled(onInvalidateLocalSafe(e, ev.refPair))
    ELSE IF ev.type = "CrossUnsafeUpdateEvent"
    THEN IF ev.chain # chainID THEN NotHandled
         ELSE Handled(onCrossUnsafeUpdate(e, ev.seal))
    ELSE IF ev.type = "CrossSafeUpdateEvent"
    THEN IF ev.chain # chainID THEN NotHandled
         ELSE Handled(onCrossSafeUpdate(e, ev.sealPair))
    ELSE IF ev.type = "FinalizedL2UpdateEvent"
    THEN Handled(onFinalizedL2(e, ev.seal))
    ELSE IF ev.type = "LocalSafeOutOfSyncEvent"
    THEN IF ev.chain # chainID THEN NotHandled
         ELSE Handled(resetSignal(e, ev.err, ev.l1Ref))
    ELSE IF ev.type = "ChainRewoundEvent"
    THEN IF ev.chain # chainID THEN NotHandled
         ELSE Handled(sendReset(e))
    ELSE NotHandled
OnEvent(e, ev) ==
    IF ev.type = "InvalidateLocalSafeEvent"
    THEN IF ev.chain # chainID THEN NotHandled
         ELSE Handled(onInvalidateLocalSafe(e, ev.refPair))
    ELSE IF ev.type = "CrossUnsafeUpdateEvent"
    THEN IF ev.chain # chainID THEN NotHandled
         ELSE Handled(onCrossUnsafeUpdate(e, ev.seal))
    ELSE IF ev.type = "CrossSafeUpdateEvent"
    THEN IF ev.chain # chainID THEN NotHandled
         ELSE Handled(onCrossSafeUpdate(e, ev.sealPair))
    ELSE IF ev.type = "FinalizedL2UpdateEvent"
    THEN IF ev.chain # chainID THEN NotHandled
         ELSE Handled(onFinalizedL2(e, ev.seal))
    ELSE IF ev.type = "LocalSafeOutOfSyncEvent"
    THEN IF ev.chain # chainID THEN NotHandled
         ELSE Handled(resetSignal(e, ev.err, ev.l1Ref))
    ELSE IF ev.type = "ChainRewoundEvent"
    THEN IF ev.chain # chainID THEN NotHandled
         ELSE Handled(sendReset(e))
    ELSE NotHandled

-----------------------------------------------------------------------------
(* Direct calls of resolveConflict: the inputs *)

\* how far above the 300 attempts the inputs reach
MaxOver == 2
\* the small walk-back depths tried
MaxDepth == 2

FinalizedNums == {0, 1, 100}
AroundBound == (maxWalkBackAttempts - 1) .. (maxWalkBackAttempts + MaxOver)
Spans == (0 .. MaxDepth + 1) \cup {50} \cup AroundBound
Depths == (0 .. MaxDepth) \cup {30} \cup AroundBound
SafeNums(F) == {0} \cup {F + d : d \in Spans}
At(S, ds) == {{}} \cup {{S - d} : d \in {e \in ds : S - e >= 0}}

L1ID == BlockID(7, "l1")

\* the behaviours of oracle and node that resolveConflict is run against
Behaviours ==
    {b \in
        UNION {
          UNION {
            [l1ID : {L1ID}, l1Ok : BOOLEAN, F : {F}, S : {S},
             oracleFail : At(S, {1, 2}) \cup {{0 - 1}}, oracleOff : {0, 2},
             accept : At(S, Depths),
             fault : At(S, {0, 1, maxWalkBackAttempts}),
             faultErr : {PlainErr, RpcErr(otherRPCErrCode)},
             walkCode : {blockNotFoundRPCErrCode, conflictingBlockRPCErrCode}]
            : S \in SafeNums(F)}
          : F \in FinalizedNums} :
        \* one representative where a parameter cannot matter
        /\ (~b.l1Ok => b.accept = {} /\ b.fault = {} /\ b.oracleFail = {} /\ b.oracleOff = 0)
        /\ (b.fault = {} => b.faultErr = PlainErr)}

\* the instance as NewManagedNode(..., noSubscribe = true) leaves it: no
\* subscription, no goroutine
NoGoroutines ==
    /\ noSubscribe = TRUE
    /\ ctxDone = FALSE
    /\ nodeEvents = <<>>
    /\ subscription = "none"
    /\ delivered = 0
    /\ loop = "notStarted"
    /\ loopEv = [nil |-> TRUE]
    /\ running = 0
    /\ watcher = "none"
    /\ wg = 0
    /\ closing = "idle"
    /\ bus = "idle"
    /\ busEv = [type |-> "none"]
    /\ puller = "idle"
    /\ sent = <<>>
    /\ handled = <<>>
    /\ lastSubscribe = "notCalled"

InitResolve ==
    /\ NoGoroutines
    /\ emitter = "nil"
    /\ phase = "ready"
    /\ \E b \in Behaviours :
         call = [op |-> "resolveConflict", b |-> b, l1Ref |-> b.l1ID,
                 u |-> UnsafeID, f |-> BlockID(b.F, "canon")]
    /\ trace = <<>>
    /\ ret = RcNil

\* resolveConflict(ctx, l1Ref, u, f) is called and returns
ResolveConflictCall ==
    /\ phase = "ready"
    /\ call.op = "resolveConflict"
    /\ LET r == resolveConflict("caller", call.b, call.l1Ref, call.u, call.f)
       IN  trace' = r.calls /\ ret' = r.ret
    /\ phase' = "returned"
    /\ UNCHANGED <<emitter, call, evars>>

NextResolve == ResolveConflictCall

SpecResolve == InitResolve /\ [][NextResolve]_vars

-----------------------------------------------------------------------------
(* Calls of the handlers: the inputs *)

\* the behaviours of SafeDerivedAt and Reset the handlers are run against
HandlerBehaviours ==
    {b \in Behaviours :
        /\ b.F = 1
        /\ b.S <= b.F + MaxDepth + 1
        /\ b.oracleOff = 0
        /\ b.oracleFail \in {{}, {b.S - 1}}
        /\ b.walkCode = conflictingBlockRPCErrCode
        /\ b.faultErr = PlainErr}
\* those where only the outcome of Reset at S varies
PlainBehaviours ==
    {b \in HandlerBehaviours :
        /\ b.l1Ok /\ b.S = b.F + 1 /\ b.fault = {} /\ b.oracleFail = {}
        /\ b.accept \in {{}, {b.S}}}

Outcomes == {"ok", "fail"}
DefaultEnv(b) ==
    [localUnsafe |-> "ok", finalized |-> "ok", localSafe |-> "ok", crossSafe |-> "ok",
     l1 |-> "ok", nodeErr |-> NoErr, b |-> b, pull |-> <<>>,
     pullErr |-> SentinelErr("EOF")]
DefaultBehaviour == CHOOSE b \in PlainBehaviours : b.accept # {}

\* the events of the bus
AnySeal == BlockSeal(4, "seal")
AnySealPair == Pair(BlockSeal(9, "l1seal"), BlockSeal(4, "seal"))
AnyRefPair == Pair(BlockRef(9, "l1"), BlockRef(4, "derived"))
BusEvent(type, chain, err) ==
    [type |-> type, chain |-> chain, seal |-> AnySeal, sealPair |-> AnySealPair,
     refPair |-> AnyRefPair, err |-> err, l1Ref |-> BlockRef(7, "l1")]
ForwardedTypes ==
    {"InvalidateLocalSafeEvent", "CrossUnsafeUpdateEvent", "CrossSafeUpdateEvent",
     "FinalizedL2UpdateEvent"}
Chains == {chainID, "chainB"}
ErrSignals ==
    {NoErr, PlainErr, SentinelErr("ErrConflict"), SentinelErr("ErrFuture"),
     SentinelErr("ErrOutOfOrder")}
BusEvents ==
    {BusEvent(t, c, NoErr) :
        t \in ForwardedTypes \cup {"ChainRewoundEvent", "SomeOtherEvent"}, c \in Chains}
    \cup {BusEvent("LocalSafeOutOfSyncEvent", c, err) : c \in Chains, err \in ErrSignals}

\* the outcomes of the calls that the handler of a bus event can make
BusEnvs(ev) ==
    IF ev.chain # chainID THEN {DefaultEnv(DefaultBehaviour)}
    ELSE IF ev.type = "LocalSafeOutOfSyncEvent"
    THEN {[DefaultEnv(b) EXCEPT !.localUnsafe = lu, !.finalized = fi, !.localSafe = ls] :
            b \in IF ErrorsIs(ev.err, "ErrConflict") THEN HandlerBehaviours
                  ELSE PlainBehaviours,
            lu \in Outcomes, fi \in {"ok", "future", "fail"}, ls \in Outcomes}
    ELSE IF ev.type = "ChainRewoundEvent"
    THEN {[DefaultEnv(b) EXCEPT !.localUnsafe = lu, !.finalized = fi, !.crossSafe = cs] :
            b \in PlainBehaviours,
            lu \in Outcomes, fi \in {"ok", "future", "fail"}, cs \in Outcomes}
    ELSE {[DefaultEnv(DefaultBehaviour) EXCEPT !.nodeErr = err] : err \in {NoErr, PlainErr}}

\* the events of the node
NilEvent ==
    [nil |-> TRUE, Reset |-> {}, UnsafeBlock |-> {}, DerivationUpdate |-> {},
     ExhaustL1 |-> {}, ReplaceBlock |-> {}]
EngineResetMsg == <<"reset: ", EngineResetPhrase, " (x)">>
OtherResetMsg == <<"reset: unknown-block">>
ManagedEvents ==
    [nil : {FALSE},
     Reset : {{}, {EngineResetMsg}, {OtherResetMsg}},
     UnsafeBlock : {{}, {BlockRef(12, "unsafe")}},
     DerivationUpdate : {{}, {Pair(BlockRef(7, "l1"), BlockRef(3, "derived"))}},
     ExhaustL1 : {{}, {Pair(BlockRef(5, "l1"), BlockRef(3, "derived"))},
                  {Pair(BlockRef(0 - 1, "l1"), BlockRef(3, "derived"))}},
     ReplaceBlock : {{}, {[replacement |-> BlockRef(3, "replaced"),
                           invalidated |-> BlockID(3, "derived")]}}]
NodeEvents == {NilEvent} \cup ManagedEvents

\* the outcomes of the calls that the handlers of a node event can make
NodeEnvs(ev) ==
    {[DefaultEnv(b) EXCEPT !.localUnsafe = lu, !.finalized = fi, !.localSafe = ls,
                           !.l1 = l1, !.nodeErr = err] :
        b \in IF ev.Reset = {OtherResetMsg} THEN PlainBehaviours ELSE {DefaultBehaviour},
        lu \in IF ev.Reset = {OtherResetMsg} THEN Outcomes ELSE {"ok"},
        fi \in IF ev.Reset = {OtherResetMsg} THEN {"ok", "future", "fail"} ELSE {"ok"},
        ls \in IF ev.Reset = {OtherResetMsg} THEN Outcomes ELSE {"ok"},
        l1 \in IF ev.ExhaustL1 # {} THEN {"ok", "notFound", "fail"} ELSE {"ok"},
        err \in IF ev.ExhaustL1 # {} THEN {NoErr, PlainErr} ELSE {NoErr}}

\* how many events PullEvent returns at most before it fails
MaxPull == 2
EmptyEvent == [NilEvent EXCEPT !.nil = FALSE]
PulledEvents ==
    {NilEvent, EmptyEvent}
    \cup {ev \in ManagedEvents :
            /\ Cardinality({k \in {"R", "U", "D", "X", "B"} :
                    \/ k = "R" /\ ev.Reset # {}
                    \/ k = "U" /\ ev.UnsafeBlock # {}
                    \/ k = "D" /\ ev.DerivationUpdate # {}
                    \/ k = "X" /\ ev.ExhaustL1 # {}
                    \/ k = "B" /\ ev.ReplaceBlock # {}}) = 1
            /\ ev.Reset # {EngineResetMsg}
            /\ \A p \in ev.ExhaustL1 : p.derivedFrom.number = 5}
PullSeqs == UNION {[1 .. n -> PulledEvents] : n \in 0 .. MaxPull}
PullEnvs ==
    {[DefaultEnv(DefaultBehaviour) EXCEPT !.pull = evs, !.pullErr = err] :
        evs \in PullSeqs,
        err \in {SentinelErr("EOF"), PlainErr, SentinelErr("Canceled")}}

-----------------------------------------------------------------------------
(* Calls of the handlers *)

InitHandlers ==
    /\ NoGoroutines
    /\ emitter = "nil"
    /\ phase = "ready"
    /\ call = [op |-> "none"]
    /\ trace = <<>>
    /\ ret = [handled |-> FALSE]

\* AttachEmitter, node.go:82-84
AttachEmitter ==
    /\ phase = "ready"
    /\ emitter = "nil"
    /\ emitter' = "attached"
    /\ UNCHANGED <<phase, call, trace, ret, evars>>

Outcome(r) == IF r.panic THEN "panicked" ELSE "returned"

\* the bus calls OnEvent(ev)
OnEventCall ==
    /\ phase = "ready"
    /\ \E ev \in BusEvents : \E e \in BusEnvs(ev) :
         LET r == OnEvent(e, ev)
         IN  /\ call' = [op |-> "OnEvent", ev |-> ev, e |-> e]
             /\ trace' = r.calls
             /\ ret' = [handled |-> r.handled]
             /\ phase' = Outcome(r)
    /\ UNCHANGED <<emitter, evars>>

\* how often the bus delivers the same watermark at most
MaxDeliveries == 2
SafetyUpdates == {"CrossUnsafeUpdateEvent", "CrossSafeUpdateEvent", "FinalizedL2UpdateEvent"}
Deliveries == IF call.op = "OnEventAgain" THEN call.times ELSE 1

\* the bus delivers the same safety update again: OnEvent(ev) once more, after
\* the earlier call has returned, the Sync Target failing or not as before or
\* otherwise.  The trace goes on after that of the earlier calls.
RedeliverDedupMut ==
    /\ phase = "returned"
    /\ call.op \in {"OnEvent", "OnEventAgain"}
    /\ call.ev.type \in SafetyUpdates
    /\ Deliveries < MaxDeliveries
    /\ \E e \in BusEnvs(call.ev) :
         LET r == OnEvent(e, call.ev)
         IN  /\ call' = [op |-> "OnEventAgain", ev |-> call.ev, e |-> e,
                         times |-> Deliveries + 1]
             /\ trace' = IF call.e.nodeErr.ok THEN trace ELSE trace \o r.calls
             /\ ret' = [handled |-> r.handled]
             /\ phase' = Outcome(r)
    /\ UNCHANGED <<emitter, evars>>
Redeliver ==
    /\ phase = "returned"
    /\ call.op \in {"OnEvent", "OnEventAgain"}
    /\ call.ev.type \in SafetyUpdates
    /\ Deliveries < MaxDeliveries
    /\ \E e \in BusEnvs(call.ev) :
         LET r == OnEvent(e, call.ev)
         IN  /\ call' = [op |-> "OnEventAgain", ev |-> call.ev, e |-> e,
                         times |-> Deliveries + 1]
             /\ trace' = trace \o r.calls
             /\ ret' = [handled |-> r.handled]
             /\ phase' = Outcome(r)
    /\ UNCHANGED <<emitter, evars>>

\* m.onNodeEvent(ev), as the dispatch loop (node.go:181) calls it
OnNodeEventCall ==
    /\ phase = "ready"
    /\ \E ev \in NodeEvents : \E e \in NodeEnvs(ev) :
         LET r == onNodeEvent(e, emitter, ev)
         IN  /\ call' = [op |-> "onNodeEvent", ev |-> ev, e |-> e]
             /\ trace' = r.calls
             /\ phase' = Outcome(r)
    /\ UNCHANGED <<emitter, ret, evars>>

\* PullEvents(ctx)
PullEventsCall ==
    /\ phase = "ready"
    /\ \E e \in PullEnvs :
         LET r == PullEvents(e, emitter)
         IN  /\ call' = [op |-> "PullEvents", e |-> e]
             /\ trace' = r.calls
             /\ ret' = [pulledAny |-> r.pulledAny, err |-> r.err]
             /\ phase' = Outcome(r)
    /\ UNCHANGED <<emitter, evars>>

NextHandlers ==
    \/ AttachEmitter
    \/ OnEventCall
    \/ Redeliver
    \/ OnNodeEventCall
    \/ PullEventsCall

SpecHandlers == InitHandlers /\ [][NextHandlers]_vars

-----------------------------------------------------------------------------
(* The life cycle of an instance: NewManagedNode, the subscription, Start, the *)
(* dispatch goroutine, the bus calling OnEvent, Close.  Here trace holds the   *)
(* calls of the handler that returned last.                                    *)

\* make(chan *types.ManagedEvent, 10)
nodeEventsCap == 10
\* how many events the subscription delivers at most
MaxEvents == 2

\* the node events delivered, the bus events passed in, and the outcomes of the
\* calls their handlers make
DeliveredEvents ==
    {[EmptyEvent EXCEPT !.UnsafeBlock = {BlockRef(12, "unsafe")}],
     [EmptyEvent EXCEPT !.Reset = {OtherResetMsg}]}
PassedEvents ==
    {BusEvent("CrossSafeUpdateEvent", chainID, NoErr),
     BusEvent("ChainRewoundEvent", chainID, NoErr)}
LifeCyclePulls ==
    {[DefaultEnv(DefaultBehaviour) EXCEPT !.pull = evs] :
        evs \in {<<>>, <<[EmptyEvent EXCEPT !.UnsafeBlock = {BlockRef(12, "unsafe")}]>>}}
LifeCycleEnvs ==
    {DefaultEnv(DefaultBehaviour),
     [DefaultEnv(DefaultBehaviour) EXCEPT !.finalized = "fail", !.nodeErr = PlainErr]}

\* NewManagedNode, node.go:65-80: SubscribeToNodeEvents unless noSubscribe (the
\* channel is made and ResubscribeErr starts to establish the subscription), then
\* WatchSubscriptionErrors (one watchSub goroutine per subscription, wg.Add(1))
Init ==
    /\ emitter = "nil"
    /\ phase = "ready"
    /\ call = [op |-> "none"]
    /\ trace = <<>>
    /\ ret = [handled |-> FALSE]
    /\ noSubscribe \in BOOLEAN
    /\ ctxDone = FALSE
    /\ nodeEvents = <<>>
    /\ subscription = IF noSubscribe THEN "none" ELSE "establishing"
    /\ delivered = 0
    /\ loop = "notStarted"
    /\ loopEv = NilEvent
    /\ running = 0
    /\ watcher = IF noSubscribe THEN "none" ELSE "watching"
    /\ wg = IF noSubscribe THEN 0 ELSE 1
    /\ closing = "idle"
    /\ bus = "idle"
    /\ busEv = BusEvent("none", chainID, NoErr)
    /\ puller = "idle"
    /\ sent = <<>>
    /\ handled = <<>>
    /\ lastSubscribe = IF noSubscribe THEN "notCalled" ELSE "pending"

\* a panic in a goroutine ends the process
Crashed == loop = "panicked" \/ puller = "panicked"

\* AttachEmitter, node.go:82-84
AttachEmitterLive ==
    /\ ~Crashed
    /\ emitter = "nil"
    /\ emitter' = "attached"
    /\ UNCHANGED <<phase, call, trace, ret, evars>>

\* m.Node.SubscribeEvents succeeds, node.go:135, 150
SubscribeSucceeds ==
    /\ ~Crashed
    /\ subscription = "establishing"
    /\ subscription' = "streaming"
    /\ lastSubscribe' = "ok"
    /\ UNCHANGED <<hvars, noSubscribe, ctxDone, nodeEvents, delivered, loop, loopEv,
                   running, watcher, wg, closing, bus, busEv, puller, sent, handled>>

\* it fails with ErrNotificationsUnsupported and rpc.StreamFallback takes over,
\* node.go:137-146
SubscribeUnsupported ==
    /\ ~Crashed
    /\ subscription = "establishing"
    /\ subscription' = "polling"
    /\ lastSubscribe' = "unsupported"
    /\ UNCHANGED <<hvars, noSubscribe, ctxDone, nodeEvents, delivered, loop, loopEv,
                   running, watcher, wg, closing, bus, busEv, puller, sent, handled>>

\* it fails otherwise (node.go:148), or the fallback cannot start (node.go:142-145):
\* ResubscribeErr waits for its backoff
SubscribeFailsMut ==
    /\ ~Crashed
    /\ subscription = "establishing"
    /\ subscription' = "backoff"
    /\ lastSubscribe' \in {"failed", "unsupported"}
    /\ UNCHANGED <<hvars, noSubscribe, ctxDone, nodeEvents, delivered, loop, loopEv,
                   running, watcher, wg, closing, bus, busEv, puller, sent, handled>>
SubscribeFails ==
    /\ ~Crashed
    /\ subscription = "establishing"
    /\ subscription' = "backoff"
    /\ lastSubscribe' \in {"failed", "fallbackFailed"}
    /\ UNCHANGED <<hvars, noSubscribe, ctxDone, nodeEvents, delivered, loop, loopEv,
                   running, watcher, wg, closing, bus, busEv, puller, sent, handled>>

\* ResubscribeErr calls the function again: after the backoff, or when the live
\* subscription has failed (prevErr != nil, node.go:131-134)
Resubscribe ==
    /\ ~Crashed
    /\ subscription \in {"backoff", "streaming", "polling"}
    /\ subscription' = "establishing"
    /\ lastSubscribe' = "pending"
    /\ UNCHANGED <<hvars, noSubscribe, ctxDone, nodeEvents, delivered, loop, loopEv,
                   running, watcher, wg, closing, bus, busEv, puller, sent, handled>>

\* the subscription, or the polling fallback, puts an event into m.nodeEvents
Deliver ==
    /\ ~Crashed
    /\ subscription \in {"streaming", "polling"}
    /\ Len(nodeEvents) < nodeEventsCap
    /\ delivered < MaxEvents
    /\ \E ev \in DeliveredEvents :
         /\ nodeEvents' = Append(nodeEvents, ev)
         /\ sent' = Append(sent, ev)
    /\ delivered' = delivered + 1
    /\ UNCHANGED <<hvars, noSubscribe, ctxDone, subscription, loop, loopEv, running,
                   watcher, wg, closing, bus, busEv, puller, handled,
                   lastSubscribe>>

\* Start, node.go:170-185: wg.Add(1) and the goroutine.  (sync.WaitGroup wants
\* every Add that starts from zero to happen before Wait: Start precedes Close.)
Start ==
    /\ ~Crashed
    /\ loop = "notStarted"
    /\ closing = "idle"
    /\ wg' = wg + 1
    /\ loop' = "select"
    /\ UNCHANGED <<hvars, noSubscribe, ctxDone, nodeEvents, subscription, delivered,
                   loopEv, running, watcher, closing, bus, busEv, puller, sent, handled,
                   lastSubscribe>>

\* case <-m.ctx.Done(): return, node.go:177-179, with the deferred wg.Done()
LoopExitMut ==
    /\ ~Crashed
    /\ loop = "select"
    /\ subscription = "unsubscribed"
    /\ loop' = "exited"
    /\ wg' = wg - 1
    /\ UNCHANGED <<hvars, noSubscribe, ctxDone, nodeEvents, subscription, delivered,
                   loopEv, running, watcher, closing, bus, busEv, puller, sent, handled,
                   lastSubscribe>>
LoopExit ==
    /\ ~Crashed
    /\ loop = "select"
    /\ ctxDone
    /\ loop' = "exited"
    /\ wg' = wg - 1
    /\ UNCHANGED <<hvars, noSubscribe, ctxDone, nodeEvents, subscription, delivered,
                   loopEv, running, watcher, closing, bus, busEv, puller, sent, handled,
                   lastSubscribe>>

\* case ev := <-m.nodeEvents, node.go:180 (blocks for ever on the nil channel of
\* noSubscribe).  When the context is done as well, select takes either case.
LoopReceiveMut ==
    /\ ~Crashed
    /\ loop = "select"
    /\ ~noSubscribe
    /\ nodeEvents # <<>>
    /\ loopEv' = Head(nodeEvents)
    /\ nodeEvents' = Tail(nodeEvents)
    /\ running' = running + 1
    /\ UNCHANGED <<hvars, noSubscribe, ctxDone, subscription, delivered, loop, watcher,
                   wg, closing, bus, busEv, puller, sent, handled,
                   lastSubscribe>>
LoopReceiveLastMut ==
    /\ ~Crashed
    /\ loop = "select"
    /\ ~noSubscribe
    /\ nodeEvents # <<>>
    /\ loopEv' = nodeEvents[Len(nodeEvents)]
    /\ nodeEvents' = SubSeq(nodeEvents, 1, Len(nodeEvents) - 1)
    /\ loop' = "handling"
    /\ running' = running + 1
    /\ UNCHANGED <<hvars, noSubscribe, ctxDone, subscription, delivered, watcher, wg,
                   closing, bus, busEv, puller, sent, handled,
                   lastSubscribe>>
LoopReceive ==
    /\ ~Crashed
    /\ loop = "select"
    /\ ~noSubscribe
    /\ nodeEvents # <<>>
    /\ loopEv' = Head(nodeEvents)
    /\ nodeEvents' = Tail(nodeEvents)
    /\ loop' = "handling"
    /\ running' = running + 1
    /\ UNCHANGED <<hvars, noSubscribe, ctxDone, subscription, delivered, watcher, wg,
                   closing, bus, busEv, puller, sent, handled,
                   lastSubscribe>>

\* m.onNodeEvent(ev) returns, node.go:181, or panics
LoopHandled ==
    /\ ~Crashed
    /\ loop = "handling"
    /\ \E e \in LifeCycleEnvs :
         LET r == onNodeEvent(e, emitter, loopEv)
         IN  /\ trace' = r.calls
             /\ loop' = IF r.panic THEN "panicked" ELSE "select"
    /\ handled' = Append(handled, loopEv)
    /\ running' = running - 1
    /\ UNCHANGED <<emitter, phase, call, ret, noSubscribe, ctxDone, nodeEvents,
                   subscription, delivered, loopEv, watcher, wg, closing, bus, busEv, puller, sent,
                   lastSubscribe>>

\* watchSub, node.go:155-163: the subscription's Err channel (closed by
\* Unsubscribe) or the cancelled context ends it, with the deferred wg.Done()
WatcherExit ==
    /\ ~Crashed
    /\ watcher = "watching"
    /\ ctxDone \/ subscription = "unsubscribed"
    /\ watcher' = "exited"
    /\ wg' = wg - 1
    /\ UNCHANGED <<hvars, noSubscribe, ctxDone, nodeEvents, subscription, delivered,
                   loop, loopEv, running, closing, bus, busEv, puller, sent, handled,
                   lastSubscribe>>

\* the bus calls OnEvent(ev), node.go:86
BusCalls ==
    /\ ~Crashed
    /\ bus = "idle"
    /\ \E ev \in PassedEvents : busEv' = ev
    /\ bus' = "handling"
    /\ UNCHANGED <<hvars, noSubscribe, ctxDone, nodeEvents, subscription, delivered,
                   loop, loopEv, running, watcher, wg, closing, puller, sent, handled,
                   lastSubscribe>>

\* OnEvent returns
BusReturns ==
    /\ ~Crashed
    /\ bus = "handling"
    /\ \E e \in LifeCycleEnvs : trace' = OnEvent(e, busEv).calls
    /\ bus' = "idle"
    /\ UNCHANGED <<emitter, phase, call, ret, noSubscribe, ctxDone, nodeEvents,
                   subscription, delivered, loop, loopEv, running, watcher, wg, closing,
                   busEv, puller, sent, handled,
                   lastSubscribe>>

\* PullEvents(ctx) is called, node.go:189
PullerCalls ==
    /\ ~Crashed
    /\ puller = "idle"
    /\ puller' = "pulling"
    /\ UNCHANGED <<hvars, noSubscribe, ctxDone, nodeEvents, subscription, delivered,
                   loop, loopEv, running, watcher, wg, closing, bus, busEv, sent, handled,
                   lastSubscribe>>

\* PullEvents returns, or panics
PullerReturns ==
    /\ ~Crashed
    /\ puller = "pulling"
    /\ \E e \in LifeCyclePulls :
         LET r == PullEvents(e, emitter)
         IN  /\ trace' = r.calls
             /\ puller' = IF r.panic THEN "panicked" ELSE "idle"
    /\ UNCHANGED <<emitter, phase, call, ret, noSubscribe, ctxDone, nodeEvents,
                   subscription, delivered, loop, loopEv, running, watcher, wg, closing,
                   bus, busEv, sent, handled,
                   lastSubscribe>>

\* Close, node.go:490: m.cancel()
CloseCancels ==
    /\ ~Crashed
    /\ closing = "idle"
    /\ ctxDone' = TRUE
    /\ closing' = "waiting"
    /\ UNCHANGED <<hvars, noSubscribe, nodeEvents, subscription, delivered, loop,
                   loopEv, running, watcher, wg, bus, busEv, puller, sent, handled,
                   lastSubscribe>>

\* Close, node.go:491-497: m.wg.Wait() returns, every subscription is
\* unsubscribed, Close returns
CloseReturnsMut ==
    /\ ~Crashed
    /\ closing = "waiting"
    /\ subscription' = IF subscription = "none" THEN "none" ELSE "unsubscribed"
    /\ closing' = "returned"
    /\ UNCHANGED <<hvars, noSubscribe, ctxDone, nodeEvents, delivered, loop, loopEv,
                   running, watcher, wg, bus, busEv, puller, sent, handled,
                   lastSubscribe>>
CloseReturns ==
    /\ ~Crashed
    /\ closing = "waiting"
    /\ wg = 0
    /\ subscription' = IF subscription = "none" THEN "none" ELSE "unsubscribed"
    /\ closing' = "returned"
    /\ UNCHANGED <<hvars, noSubscribe, ctxDone, nodeEvents, delivered, loop, loopEv,
                   running, watcher, wg, bus, busEv, puller, sent, handled,
                   lastSubscribe>>

Next ==
    \/ AttachEmitterLive
    \/ SubscribeSucceeds
    \/ SubscribeUnsupported
    \/ SubscribeFails
    \/ Resubscribe
    \/ Deliver
    \/ Start
    \/ LoopExit
    \/ LoopReceive
    \/ LoopHandled
    \/ WatcherExit
    \/ BusCalls
    \/ BusReturns
    \/ PullerCalls
    \/ PullerReturns
    \/ CloseCancels
    \/ CloseReturns

Spec == Init /\ [][Next]_vars

\* The scheduling: a handler that is running returns (its calls are bounded by
\* their timeouts); select chooses at random among its ready cases, so a case
\* that is ready again and again is taken.
\* ResubscribeErr calls the function again when its backoff has passed.
FairSpec ==
    /\ Spec
    /\ WF_vars(LoopHandled)
    /\ SF_vars(LoopExit)
    /\ WF_vars(Resubscribe /\ subscription = "backoff")

-----------------------------------------------------------------------------
(* Reading the trace of a call *)

IsReset(d) == d.op = "Reset"
\* the Reset calls issued, in order
Resets == SelectSeq(trace, IsReset)
\* the safe block of a Reset call
ResetSafe(d) == d.args[2]
\* the numbers strictly greater than F (on uint64)
Above(n, F) == ~ULeq(n, F)
IsByNumberRead(d) == d.op = "SafeDerivedAt" /\ d.args[1].hash = "zero"
\* the oracle reads SafeDerivedAt({Number: n}) issued, in order
ByNumberReads == SelectSeq(trace, IsByNumberRead)

Returned(op) == phase = "returned" /\ call.op = op

-----------------------------------------------------------------------------
(* Claims about resolveConflict, checked under SpecResolve *)

\* The setting of C1 and C2: the oracle answers every read, and returns the block
\* numbered n when asked for n; the starting safe number S is above F.
WalkSetting ==
    /\ Returned("resolveConflict")
    /\ call.b.l1Ok
    /\ call.b.oracleOff = 0
    /\ call.b.oracleFail = {}
    /\ call.b.S > call.b.F

\* ... and Reset succeeds only for the candidate numbered C, F < C <= S, and
\* otherwise fails with the block-not-found or the conflicting-block code.
OnlyAccepts(C) ==
    /\ WalkSetting
    /\ call.b.accept = {C}
    /\ call.b.fault = {}
    /\ call.b.F < C
    /\ C <= call.b.S

\* success with the node reset to C, at most S - C + 1 Resets, none at or below F
FoundAt(C) ==
    /\ ret = RcNil
    /\ Len(Resets) >= 1
    /\ ResetSafe(Resets[Len(Resets)]).number = C
    /\ Len(Resets) <= call.b.S - C + 1
    /\ \A i \in 1 .. Len(Resets) : Above(ResetSafe(Resets[i]).number, call.b.F)

\* C1 as stated: for every F < C <= S, resolveConflict returns success with the
\* node reset to C, issues at most S - C + 1 Reset calls, and none whose safe
\* number is <= F.
C1_AsStated ==
    \A C \in call.b.accept : OnlyAccepts(C) => FoundAt(C)

\* C1, amended: that holds when S - C <= 300 (maxWalkBackAttempts).  When
\* S - C > 300 the walk-back gives up before it reaches C: resolveConflict returns
\* the "exceeded maximum walk-back attempts" error after 301 Reset calls, still
\* none of them with a safe number <= F.
C1_WalkBackFindsCandidate ==
    \A C \in call.b.accept :
        OnlyAccepts(C) =>
            IF call.b.S - C <= maxWalkBackAttempts
            THEN FoundAt(C)
            ELSE /\ ret.kind = "exceededMax"
                 /\ Len(Resets) = maxWalkBackAttempts + 1
                 /\ \A i \in 1 .. Len(Resets) :
                        Above(ResetSafe(Resets[i]).number, call.b.F)

\* F = 100, S = 150, C = 120: 31 Reset calls and success
C1_Witness ==
    /\ OnlyAccepts(120)
    /\ call.b.F = 100
    /\ call.b.S = 150
    /\ ret = RcNil
    /\ Len(Resets) = 31

\* C2: when every Reset for a candidate in (F, S] fails with the block-not-found
\* or the conflicting-block code, resolveConflict returns the "reached finalized
\* block" error if the decreasing candidate number reaches F before 300 walk-back
\* attempts were made (S - F <= 300: S - F - 1 walk-back attempts), and otherwise
\* the "exceeded maximum walk-back attempts" error after exactly 300 walk-back
\* attempts (301 Resets with the initial one); there is no other outcome.
NoneAccepted ==
    /\ WalkSetting
    /\ \A n \in call.b.accept \cup call.b.fault : n <= call.b.F \/ n > call.b.S
WalkBackAttempts == Len(Resets) - 1
C2_WalkBackExhaustion ==
    NoneAccepted =>
        IF call.b.S - call.b.F <= maxWalkBackAttempts
        THEN /\ ret = RcErr("reachedFinalized", call.b.F, NoErr)
             /\ WalkBackAttempts = call.b.S - call.b.F - 1
        ELSE /\ ret = RcErr("exceededMax", maxWalkBackAttempts, NoErr)
             /\ WalkBackAttempts = maxWalkBackAttempts

C2_Witness ==
    /\ NoneAccepted
    /\ call.b.S - call.b.F = maxWalkBackAttempts + 1
    /\ ret.kind = "exceededMax"
    /\ WalkBackAttempts = maxWalkBackAttempts

\* C3: if the first Reset (at the safe block the oracle derives from l1Ref) fails
\* with anything but a remote error with code -39001 or -39002, resolveConflict
\* returns that error at once: exactly one Reset, no by-number oracle read.
FirstResetFaults ==
    /\ Returned("resolveConflict")
    /\ call.b.l1Ok
    /\ call.b.S \notin call.b.accept
    /\ call.b.S \in call.b.fault
C3_NonWalkableShortCircuits ==
    FirstResetFaults =>
        /\ ret = RcErr("duringReset", 0, call.b.faultErr)
        /\ trace = <<Did("SafeDerivedAt", <<call.l1Ref>>, "caller"),
                     Did("Reset", <<call.u, BlockID(call.b.S, "canon"), call.f>>,
                         "caller")>>
        /\ Len(Resets) = 1
        /\ Len(ByNumberReads) = 0

C3_Witness ==
    /\ FirstResetFaults
    /\ call.b.faultErr = RpcErr(otherRPCErrCode)
    /\ ret.kind = "duringReset"
    /\ Len(Resets) = 1

-----------------------------------------------------------------------------
(* Claims about resetSignal, checked under SpecHandlers *)

NodeOps ==
    {"Reset", "UpdateCrossUnsafe", "UpdateCrossSafe", "UpdateFinalized",
     "InvalidateBlock", "ProvideL1", "PullEvent", "SubscribeEvents"}
IsNodeCall(d) == d.op \in NodeOps
\* the calls to the Sync Target issued, in order
NodeCalls == SelectSeq(trace, IsNodeCall)
IsEmit(d) == d.op = "Emit"
IsOracleRead(d) ==
    d.op \in {"LocalUnsafe", "LocalSafe", "CrossSafe", "Finalized", "SafeDerivedAt",
              "L1BlockRefByNumber"}

\* OnEvent has run resetSignal(kind, l1Ref) for a LocalSafeOutOfSyncEvent of this chain
Signalled(kind) ==
    /\ Returned("OnEvent")
    /\ call.ev.type = "LocalSafeOutOfSyncEvent"
    /\ call.ev.chain = chainID
    /\ ErrorsIs(call.ev.err, kind)

\* exactly one Reset was issued, and it was Reset(u, safe, f)
OneReset(safe) ==
    /\ Len(Resets) = 1
    /\ Resets[1].args = <<UnsafeID, safe, BlockID(call.e.b.F, "canon")>>

OnlySignalled ==
    \/ /\ Returned("OnEvent")
       /\ call.ev.type = "LocalSafeOutOfSyncEvent"
       /\ call.ev.chain = chainID
    \/ /\ Returned("onNodeEvent")
       /\ call.ev = [EmptyEvent EXCEPT !.Reset = {OtherResetMsg}]

\* C5: for every error kind, resetSignal issues no Sync Target call at all (no
\* Reset, no walk-back read or Reset) when the local-unsafe or the finalized read
\* fails.
C5_NoResetWithoutBothReads ==
    (OnlySignalled /\ (call.e.localUnsafe # "ok" \/ call.e.finalized # "ok")) =>
        /\ Len(NodeCalls) = 0
        /\ \A i \in 1 .. Len(trace) : trace[i].op \notin {"SafeDerivedAt", "LocalSafe"}

C5_Witness ==
    /\ Signalled("ErrConflict")
    /\ call.e.localUnsafe = "ok"
    /\ call.e.finalized = "future"
    /\ trace = <<Enter("resetSignal"), Did("LocalUnsafe", <<>>, "internalTimeout"),
                 Did("Finalized", <<>>, "internalTimeout")>>

-----------------------------------------------------------------------------
(* Claims about onNodeEvent, checked under SpecHandlers *)

NodeHandlers ==
    <<"onResetEvent", "onUnsafeBlock", "onDerivationUpdate", "onExhaustL1Event",
      "onReplaceBlock">>
IsNodeHandler(d) == \E i \in 1 .. Len(NodeHandlers) : d.op = NodeHandlers[i]
\* the handlers onNodeEvent invoked, in order
Invoked == [i \in 1 .. Len(SelectSeq(trace, IsNodeHandler)) |->
               SelectSeq(trace, IsNodeHandler)[i].op]
\* the field of call.ev that a handler belongs to is populated
PopulatedFor(handler) ==
    \/ handler = "onResetEvent" /\ call.ev.Reset # {}
    \/ handler = "onUnsafeBlock" /\ call.ev.UnsafeBlock # {}
    \/ handler = "onDerivationUpdate" /\ call.ev.DerivationUpdate # {}
    \/ handler = "onExhaustL1Event" /\ call.ev.ExhaustL1 # {}
    \/ handler = "onReplaceBlock" /\ call.ev.ReplaceBlock # {}
\* onNodeEvent(call.ev) has been called, and has returned or panicked
Dispatched == phase \in {"returned", "panicked"} /\ call.op = "onNodeEvent"

\* C6: for every non-nil ManagedEvent, onNodeEvent invokes the handler of each
\* populated field exactly once and of no unpopulated field, in the order Reset,
\* UnsafeBlock, DerivationUpdate, ExhaustL1, ReplaceBlock.
C6_DispatchOrder ==
    (Dispatched /\ ~call.ev.nil) => Invoked = SelectSeq(NodeHandlers, PopulatedFor)

\* C7: a nil event or an event with all five fields absent causes no handler
\* invocation, no emitted bus event, no oracle read and no Sync Target call, and
\* is not an error: onNodeEvent returns having done nothing, and PullEvents, when
\* it pulls only such events, has issued nothing but its PullEvent calls and
\* returns a nil error at the end of the stream.
C7_EmptyEventIsNoOp ==
    /\ (Dispatched /\ call.ev \in {NilEvent, EmptyEvent}) =>
            phase = "returned" /\ trace = <<>>
    /\ (call.op = "PullEvents" /\ phase # "ready"
        /\ \A i \in 1 .. Len(call.e.pull) : call.e.pull[i] \in {NilEvent, EmptyEvent}) =>
            /\ phase = "returned"
            /\ \A i \in 1 .. Len(trace) : trace[i].op = "PullEvent"
            /\ ret.pulledAny = (call.e.pull # <<>>)
            /\ (ErrorsIs(call.e.pullErr, "EOF") => ret.err = NoErr)

C7_Witness ==
    /\ Dispatched
    /\ call.ev = NilEvent
    /\ emitter = "nil"
    /\ phase = "returned"
    /\ trace = <<>>

-----------------------------------------------------------------------------
(* Claims about the life cycle, checked under Spec and FairSpec *)

\* the handlers in progress: those of the dispatch goroutine, of the bus calling
\* OnEvent, and of a caller of PullEvents
BusHandlers == IF bus = "handling" THEN 1 ELSE 0
PullHandlers == IF puller = "pulling" THEN 1 ELSE 0
HandlersInProgress == running + BusHandlers + PullHandlers

\* the goroutines that Close waits for have exited (or were never started)
GoroutinesGone ==
    /\ ctxDone
    /\ wg = 0
    /\ loop \in {"notStarted", "exited"}
    /\ watcher \in {"none", "exited"}
    /\ running = 0

\* C8 as stated: Close cancels, waits for the dispatch task and the watchers, and
\* only then unsubscribes; no handler is running or starts after Close returned.
C8_AsStated ==
    /\ (subscription = "unsubscribed" => GoroutinesGone)
    /\ (closing = "returned" => HandlersInProgress = 0)

\* C8, amended: Close cancels the scope, waits until the dispatch task and every
\* subscription watcher have exited, and only afterwards unsubscribes and returns;
\* so no node-event handler of the dispatch loop is running or starts after Close
\* has returned.  (The handlers that the bus runs through OnEvent, and a caller
\* through PullEvents, are not waited for: they can run after Close has returned.)
C8_CloseWaitsForGoroutines ==
    (subscription = "unsubscribed" \/ closing = "returned") => GoroutinesGone

C8_Witness ==
    /\ closing = "returned"
    /\ subscription = "unsubscribed"
    /\ loop = "exited"
    /\ watcher = "exited"
    /\ delivered > 0
    /\ bus = "handling"

\* C9 as stated: at every reachable state at most one handler (of the dispatch
\* loop, of PullEvents, of OnEvent) is in progress.
C9_AsStated == HandlersInProgress <= 1

\* C9, amended: the dispatch loop runs at most one node-event handler at a time:
\* it has one in progress exactly while it is between receiving an event and its
\* next queue-wait.  (Nothing excludes a handler run by OnEvent on the bus's
\* thread, or by PullEvents on its caller's, from being in progress meanwhile.)
C9_OneDispatchHandlerAtATime ==
    /\ running <= 1
    /\ (running = 1) = (loop = "handling")

C9_Witness ==
    /\ running = 1
    /\ loop = "handling"
    /\ bus = "handling"

\* the dispatch loop has stopped: it has exited, or the process has crashed
LoopStopped == loop = "exited" \/ Crashed
\* the step in which the dispatch loop takes an event out of the queue
LoopDequeues == loop = "select" /\ loop' = "handling"

\* C10 as stated: once the scope is cancelled, the dispatch loop exits at its next
\* queue-wait: it handles no event that it dequeues after the cancellation, even
\* when events are pending, and it eventually terminates.
C10_AsStated ==
    /\ [][~(ctxDone /\ LoopDequeues)]_vars
    /\ ((ctxDone /\ loop \in {"select", "handling"}) ~> LoopStopped)

\* C10, amended: once the scope is cancelled, the dispatch loop eventually
\* terminates, and a queue-wait that finds the inbound queue empty can only end
\* by exiting; while events are pending, the select may take either case, so the
\* loop can still dequeue and handle events after the cancellation.
C10_LoopStopsAfterCancel ==
    /\ [][(ctxDone /\ loop = "select" /\ (noSubscribe \/ nodeEvents = <<>>)
           /\ loop' # loop) => loop' = "exited"]_vars
    /\ ((ctxDone /\ loop \in {"select", "handling"}) ~> LoopStopped)

C10_Witness ==
    /\ ctxDone
    /\ loop = "exited"
    /\ nodeEvents # <<>>

\* the event the dispatch goroutine has received and is handling
InFlight == IF loop = "handling" THEN <<loopEv>> ELSE <<>>
IsPrefix(p, q) == Len(p) <= Len(q) /\ SubSeq(q, 1, Len(p)) = p

\* C11: the events handled by the dispatch loop are always a prefix of the events
\* the subscription or poll source put into the inbound queue, in the same order:
\* what was sent is what was handled, then the one event being handled (at most
\* one), then what still waits in the queue; nothing is reordered, duplicated,
\* skipped or batched.
C11_HandledInDeliveryOrder ==
    /\ IsPrefix(handled, sent)
    /\ handled \o InFlight \o nodeEvents = sent
    /\ Len(sent) = delivered

C11_Witness ==
    /\ Len(handled) = 2
    /\ handled[1] # handled[2]
    /\ handled = sent
    /\ loop = "select"

-----------------------------------------------------------------------------
(* Claims about PullEvents and the forwarders, checked under SpecHandlers *)

\* PullEvents has been called, and has returned or panicked
Pulled == phase \in {"returned", "panicked"} /\ call.op = "PullEvents"

\* the calls of a PullEvents that dispatches each of evs in order, each after the
\* PullEvent that returned it, and then makes the PullEvent that fails
RECURSIVE PulledTrace(_, _, _)
PulledTrace(e, em, evs) ==
    IF evs = <<>> THEN <<Did("PullEvent", <<>>, "caller")>>
    ELSE <<Did("PullEvent", <<>>, "caller")>> \o onNodeEvent(e, em, Head(evs)).calls
         \o PulledTrace(e, em, Tail(evs))

\* C12: PullEvents dispatches every event that PullEvent returns, in order, until
\* PullEvent fails; it then returns pulledAny = true iff at least one event was
\* dispatched, with a nil error when the failure is the end of the stream and
\* with that failure otherwise (context cancellation included).
C12_PullEventsContract ==
    Pulled =>
        /\ phase = "returned"
        /\ trace = PulledTrace(call.e, emitter, call.e.pull)
        /\ ret.pulledAny = (call.e.pull # <<>>)
        /\ ret.err = IF ErrorsIs(call.e.pullErr, "EOF") THEN NoErr ELSE call.e.pullErr

\* OnEvent has been given a safety update of this chain, once or several times
Propagated(type) ==
    /\ phase = "returned"
    /\ call.op \in {"OnEvent", "OnEventAgain"}
    /\ call.ev.type = type
    /\ call.ev.chain = chainID
IsMarker(d) == d.ctx = "none" /\ d.args = <<>>
NotMarker(d) == ~IsMarker(d)
\* what was issued (oracle reads, Sync Target calls, emits), in order
Issued == SelectSeq(trace, NotMarker)
\* n times the call d, and nothing else
Times(n, d) == [i \in 1 .. n |-> d]
IDOf(seal) == BlockID(seal.number, seal.hash)

\* C13: every call of onCrossUnsafeUpdate, onCrossSafeUpdate or onFinalizedL2
\* issues exactly one call of the matching Sync Target update with the IDs of its
\* argument, and nothing else: delivered n times, the same update gives n
\* identical calls, whether or not the earlier calls or this one failed.
C13_ForwardsUnconditionally ==
    /\ Propagated("CrossUnsafeUpdateEvent") =>
         Issued = Times(Deliveries,
                        Did("UpdateCrossUnsafe", <<IDOf(call.ev.seal)>>, "nodeTimeout"))
    /\ Propagated("CrossSafeUpdateEvent") =>
         Issued = Times(Deliveries,
                        Did("UpdateCrossSafe",
                            <<IDOf(call.ev.sealPair.derived),
                              IDOf(call.ev.sealPair.derivedFrom)>>, "nodeTimeout"))
    /\ Propagated("FinalizedL2UpdateEvent") =>
         Issued = Times(Deliveries,
                        Did("UpdateFinalized", <<IDOf(call.ev.seal)>>, "nodeTimeout"))

\* the same pair delivered twice, the first call having failed
C13_Witness ==
    /\ Propagated("CrossSafeUpdateEvent")
    /\ Deliveries = 2
    /\ Len(Issued) = 2
    /\ Issued[1] = Issued[2]
    /\ ~call.e.nodeErr.ok

-----------------------------------------------------------------------------
(* Claims about the handlers of node events, checked under SpecHandlers *)

\* onNodeEvent(call.ev) has invoked the handler
Entered(handler) ==
    /\ Dispatched
    /\ \E i \in 1 .. Len(trace) : trace[i] = Enter(handler)
\* what the handler issued: the trace between its marker and the next one
CallsOf(handler) ==
    LET i == CHOOSE k \in 1 .. Len(trace) : trace[k] = Enter(handler)
        later == {k \in (i + 1) .. Len(trace) : IsMarker(trace[k])}
        last == IF later = {} THEN Len(trace)
                ELSE (CHOOSE k \in later : \A j \in later : k <= j) - 1
    IN  SubSeq(trace, i + 1, last)
\* the number of the L1 block that the ExhaustL1 field of call.ev was derived from
CompletedL1 == Only(call.ev.ExhaustL1).derivedFrom.number

\* C14: on ExhaustL1(completed) the oracle is asked, once, for the L1 block
\* numbered completed.DerivedFrom.Number + 1 (on uint64); ProvideL1 is called,
\* exactly once and with the block fetched, iff that read succeeds; when the read
\* fails, with not-found or otherwise, ProvideL1 is not called; nothing is
\* retried, whether the read or ProvideL1 fails.
C14_L1Feeder ==
    Entered("onExhaustL1Event") =>
        CallsOf("onExhaustL1Event") =
            <<Did("L1BlockRefByNumber", <<NumberID(CompletedL1 + 1)>>, "internalTimeout")>>
            \o IF call.e.l1 = "ok"
               THEN <<Did("ProvideL1", <<BlockRef(CompletedL1 + 1, "l1")>>, "nodeTimeout")>>
               ELSE <<>>

C14_Witness ==
    /\ Entered("onExhaustL1Event")
    /\ phase = "returned"
    /\ call.e.l1 = "fail"
    /\ Len(CallsOf("onExhaustL1Event")) = 1

-----------------------------------------------------------------------------
(* Claims about the handlers of bus events, checked under SpecHandlers *)

\* OnEvent has run sendReset for a ChainRewoundEvent of this chain
Rewound ==
    /\ Returned("OnEvent")
    /\ call.ev.type = "ChainRewoundEvent"
    /\ call.ev.chain = chainID

\* C15: sendReset issues at most one Reset, Reset(local-unsafe, cross-safe.Derived,
\* finalized), and no other Sync Target call: none when the local-unsafe or the
\* cross-safe read fails or the finalized read fails with an error that is not
\* 'future'; when the finalized read fails with 'future', the Reset carries the
\* block ID of number 0 as finalized.
C15_SendReset ==
    Rewound =>
        IF \/ call.e.localUnsafe # "ok"
           \/ call.e.crossSafe # "ok"
           \/ call.e.finalized = "fail"
        THEN Len(NodeCalls) = 0
        ELSE NodeCalls =
               <<Did("Reset",
                     <<UnsafeID, BlockID(call.e.b.S, "cross"),
                       IF call.e.finalized = "future" THEN NumberID(0)
                       ELSE BlockID(call.e.b.F, "canon")>>, "internalTimeout")>>

C15_Witness ==
    /\ Rewound
    /\ call.e.localUnsafe = "ok"
    /\ call.e.crossSafe = "ok"
    /\ call.e.finalized = "future"
    /\ Len(Resets) = 1
    /\ Resets[1].args[3] = NumberID(0)

SixEvents ==
    {"InvalidateLocalSafeEvent", "CrossUnsafeUpdateEvent", "CrossSafeUpdateEvent",
     "FinalizedL2UpdateEvent", "LocalSafeOutOfSyncEvent", "ChainRewoundEvent"}
HandlerOf(type) ==
    CASE type = "InvalidateLocalSafeEvent" -> "onInvalidateLocalSafe"
      [] type = "CrossUnsafeUpdateEvent" -> "onCrossUnsafeUpdate"
      [] type = "CrossSafeUpdateEvent" -> "onCrossSafeUpdate"
      [] type = "FinalizedL2UpdateEvent" -> "onFinalizedL2"
      [] type = "LocalSafeOutOfSyncEvent" -> "resetSignal"
      [] type = "ChainRewoundEvent" -> "sendReset"
\* the handlers that ran, in order
Markers == SelectSeq(trace, IsMarker)

\* C16: OnEvent, given one of the six inbound bus events with a ChainID that is
\* not the instance's, or an event of any other type, returns false and issues
\* nothing (no oracle read, no Sync Target call, no emit); given one of the six
\* with the instance's ChainID it runs exactly the corresponding handler, and
\* returns true.
C16_ChainFiltering ==
    (call.op = "OnEvent" /\ phase # "ready") =>
        /\ phase = "returned"
        /\ IF call.ev.type \in SixEvents /\ call.ev.chain = chainID
           THEN /\ ret.handled
                /\ Markers = <<Enter(HandlerOf(call.ev.type))>>
                /\ trace[1] = Enter(HandlerOf(call.ev.type))
           ELSE /\ ~ret.handled
                /\ trace = <<>>

C16_Witness ==
    /\ Returned("OnEvent")
    /\ call.ev.type = "FinalizedL2UpdateEvent"
    /\ call.ev.chain # chainID
    /\ ~ret.handled
    /\ trace = <<>>

\* the Reset(u, local-safe.Derived, f) of the Future branch: the derived block of
\* the local-safe pair read, the zero value when that read failed
FutureBranchReset ==
    Did("Reset",
        <<UnsafeID,
          IF call.e.localSafe = "ok" THEN BlockID(call.e.b.S, "local") ELSE ZeroID,
          BlockID(call.e.b.F, "canon")>>, "internalTimeout")

\* C17: on a Reset event whose message says that the engine must be reset before
\* derivation can continue, the handler issues nothing (no oracle read, no Sync
\* Target call); on every other message it invokes resetSignal with the Future
\* kind and an empty L1 reference: the local-unsafe, finalized and local-safe
\* reads and at most one Reset, the Reset(u, local-safe.Derived, f) of the Future
\* branch, and never a walk-back.
C17_NodeResetEvent ==
    Entered("onResetEvent") =>
        /\ CallsOf("onResetEvent") = <<>>
        /\ Len(ByNumberReads) = 0
        /\ \A i \in 1 .. Len(trace) : trace[i].op # "SafeDerivedAt"
        /\ IF Only(call.ev.Reset) = EngineResetMsg
           THEN /\ ~Entered("resetSignal")
                /\ Len(Resets) = 0
           ELSE /\ Entered("resetSignal")
                /\ Markers[2] = Enter("resetSignal")
                /\ CallsOf("resetSignal") =
                     IF call.e.localUnsafe # "ok"
                     THEN <<Did("LocalUnsafe", <<>>, "internalTimeout")>>
                     ELSE IF call.e.finalized # "ok"
                     THEN <<Did("LocalUnsafe", <<>>, "internalTimeout"),
                            Did("Finalized", <<>>, "internalTimeout")>>
                     ELSE <<Did("LocalUnsafe", <<>>, "internalTimeout"),
                            Did("Finalized", <<>>, "internalTimeout"),
                            Did("LocalSafe", <<>>, "internalTimeout"),
                            FutureBranchReset>>
                /\ Len(Resets) <= 1

C17_Witness ==
    /\ Entered("onResetEvent")
    /\ Only(call.ev.Reset) = EngineResetMsg
    /\ call.ev.ExhaustL1 = {}
    /\ \A i \in 1 .. Len(trace) : ~IsOracleRead(trace[i]) /\ ~IsNodeCall(trace[i])

-----------------------------------------------------------------------------
(* Claims about the subscription, checked under FairSpec *)

\* no subscription is live: one is being established, or awaits its next attempt
NotEstablished == subscription \in {"establishing", "backoff"}

\* the engine can take its next step: the bus can call OnEvent and have it
\* return, the dispatch loop can receive what is queued, finish handling and
\* exit on cancellation
EngineRuns ==
    /\ bus = "idle" => ENABLED BusCalls
    /\ bus = "handling" => ENABLED BusReturns
    /\ loop = "notStarted" /\ closing = "idle" => ENABLED Start
    /\ loop = "select" /\ nodeEvents # <<>> => ENABLED LoopReceive
    /\ loop = "select" /\ ctxDone => ENABLED LoopExit
    /\ loop = "handling" => ENABLED LoopHandled

\* C18: when SubscribeEvents fails with notifications-unsupported, the polling
\* fallback over PullEvent becomes the live subscription, delivering into the
\* same inbound queue; when it fails with any other error (or the fallback cannot
\* be started), establishment is attempted again after the backoff, time after
\* time, until Close unsubscribes; and while no subscription is established the
\* dispatch loop and the bus handlers keep running.
C18_BridgeEstablishment ==
    /\ [](lastSubscribe = "unsupported" => subscription \in {"polling", "unsubscribed"})
    /\ [](lastSubscribe \in {"failed", "fallbackFailed"} =>
            subscription \in {"backoff", "unsubscribed"})
    /\ [](lastSubscribe = "ok" => subscription \in {"streaming", "unsubscribed"})
    /\ [][(subscription = "polling" /\ sent' # sent) =>
            /\ sent' = Append(sent, nodeEvents'[Len(nodeEvents')])
            /\ nodeEvents' = Append(nodeEvents, nodeEvents'[Len(nodeEvents')])]_vars
    /\ [][(subscription = "backoff" /\ subscription' # subscription) =>
            subscription' \in {"establishing", "unsubscribed"}]_vars
    /\ (subscription = "backoff" ~>
            (subscription = "establishing" \/ closing = "returned" \/ Crashed))
    /\ []((NotEstablished /\ ~Crashed) => EngineRuns)

\* the fallback is live, and the dispatch loop has handled what it delivered
C18_Witness ==
    /\ subscription = "polling"
    /\ lastSubscribe = "unsupported"
    /\ Len(handled) = 2
    /\ nodeEvents = <<>>
    /\ bus = "handling"

-----------------------------------------------------------------------------
(* Claims about the handlers' panics, checked under SpecHandlers *)

\* C19: no handler ever panics: in every state of the instance (the freshly
\* constructed one included) and for every outcome of the oracle and Sync Target
\* calls, each invocation of OnEvent, of onNodeEvent and of PullEvents returns
\* control to its caller.
C19_NoHandlerPanics == phase # "panicked"

-----------------------------------------------------------------------------
(* Claims about the walk-back, checked under SpecResolve *)

\* the initial Reset, at the safe block numbered S, failed with a walkable code
InitialResetWalkable ==
    /\ Returned("resolveConflict")
    /\ call.b.l1Ok
    /\ call.b.S \notin call.b.accept
    /\ call.b.S \notin call.b.fault

\* the by-number reads, of those reads rs, that succeeded
Answered(rs) == {i \in 1 .. Len(rs) : rs[i].args[1].number \notin call.b.oracleFail}

\* C20: after a walkable failure of the initial Reset at safe number S, the oracle
\* is asked for the numbers S-1, S-2, ... in turn (uint64 numbers: each one less
\* than the one before, each strictly greater than f.Number); every read but a
\* failing last one is followed by exactly one Reset, of the block read, with the
\* u and f of the initial attempt; there are at most 300 reads, so at most 301
\* Resets.
C20_WalkBackStepping ==
    InitialResetWalkable =>
        LET reads == ByNumberReads
            resets == Resets
            answered == Answered(reads)
        IN  /\ \A i \in 1 .. Len(reads) :
                  /\ reads[i].args[1] = NumberID(call.b.S - i)
                  /\ Above(reads[i].args[1].number, call.f.number)
                  /\ i \in answered \/ i = Len(reads)
            /\ Len(reads) <= maxWalkBackAttempts
            /\ Len(resets) = 1 + Cardinality(answered)
            /\ Len(resets) <= maxWalkBackAttempts + 1
            /\ \A i \in 1 .. Len(resets) :
                  /\ resets[i].args[1] = call.u
                  /\ resets[i].args[3] = call.f
                  /\ resets[i].ctx = "caller"
            /\ \A i \in 2 .. Len(resets) :
                  ResetSafe(resets[i]) = SafeDerivedAt(call.b, reads[i - 1].args[1]).val
            /\ \A i \in 3 .. Len(trace) :
                  IsReset(trace[i]) => IsByNumberRead(trace[i - 1])

\* all 300 attempts made: 300 reads, 301 Resets
C20_Witness ==
    /\ InitialResetWalkable
    /\ Len(ByNumberReads) = maxWalkBackAttempts
    /\ Len(Resets) = maxWalkBackAttempts + 1
    /\ ret.kind = "exceededMax"

-----------------------------------------------------------------------------
(* Claims about the contexts of the calls, checked under SpecHandlers *)

Mutations ==
    {"UpdateCrossUnsafe", "UpdateCrossSafe", "UpdateFinalized", "Reset",
     "InvalidateBlock", "ProvideL1"}

\* C21: every Sync Target mutation (UpdateCrossUnsafe, UpdateCrossSafe,
\* UpdateFinalized, Reset, InvalidateBlock, ProvideL1) is issued under a node
\* timeout scope (10s) and every Safety Oracle read under the internal timeout
\* scope (30s); in particular no Reset is issued under the scope of an oracle
\* read.
C21_TimeoutScopes ==
    \A i \in 1 .. Len(trace) :
        /\ trace[i].op \in Mutations => trace[i].ctx = "nodeTimeout"
        /\ IsOracleRead(trace[i]) => trace[i].ctx = "internalTimeout"

-----------------------------------------------------------------------------
(* Claims about the results of resolveConflict, checked under SpecResolve *)

\* C22: during the walk-back the candidate block number is always strictly less
\* than the starting safe number S and never wraps around; when S = 0 (or
\* S <= f.Number) and the initial Reset fails with a walkable code,
\* resolveConflict makes no by-number oracle query and no further Reset, and
\* returns the 'reached finalized block' error.
C22_NoWrapAround ==
    InitialResetWalkable =>
        LET reads == ByNumberReads
        IN  /\ \A i \in 1 .. Len(reads) :
                  /\ reads[i].args[1].number >= 0
                  /\ reads[i].args[1].number < call.b.S
            /\ (call.b.S = 0 \/ call.b.S <= call.f.number) =>
                  /\ reads = <<>>
                  /\ Len(Resets) = 1
                  /\ ret.kind = "reachedFinalized"

\* the Reset call d succeeded; the oracle read d failed
ResetSucceeded(d) == NodeReset(call.b, d.args[1], d.args[2], d.args[3]).ok
ReadFailed(d) == d.op = "SafeDerivedAt" /\ ~SafeDerivedAt(call.b, d.args[1]).err.ok

\* C23: resolveConflict returns nil if and only if the last Reset it issued
\* succeeded; a Reset that succeeds is the last call it makes, and so is an
\* oracle read (SafeDerivedAt for l1Ref or for a walk-back number) that fails,
\* after which it returns an error: no Reset follows either.
C23_NilIffLastResetSucceeded ==
    Returned("resolveConflict") =>
        LET resets == Resets
            n == Len(trace)
        IN  /\ (ret = RcNil) = (resets # <<>> /\ ResetSucceeded(resets[Len(resets)]))
            /\ \A i \in 1 .. n :
                  /\ (IsReset(trace[i]) /\ ResetSucceeded(trace[i])) => i = n
                  /\ ReadFailed(trace[i]) =>
                        /\ i = n
                        /\ ret.kind \in {"safeForL1Ref", "safeAtBlock"}
                        /\ ~ret.cause.ok

\* a walk-back read failed after two Resets
C23_Witness ==
    /\ Returned("resolveConflict")
    /\ ret.kind = "safeAtBlock"
    /\ Len(Resets) = 2
    /\ ReadFailed(trace[Len(trace)])

====
